---- MODULE Spec2Model ----
(***************************************************************************)
(* Line-delimited JSON command server of stabilizer (src/src/server.rs):   *)
(* the byte-stream framer of Server::poll, the quote substitution of       *)
(* Request / Response, the reply serialisation of json_reply and the       *)
(* attribute dispatch of route_request!; and saturating_scale of the dsp   *)
(* crate (src/dsp/src/lib.rs).  Bytes are their ASCII codes.               *)
(***************************************************************************)
EXTENDS Integers, Sequences, FiniteSets, TLC

\* ---------------------------------------------------------------- bounds
\* Number of segments the client sends in one behaviour.
MaxSegs == 2
\* Number of segments the client sends where the return of poll is checked.
MaxDrainSegs == 2
\* Number of requests the client sends where the routing and the sizes of
\* the replies are checked.
MaxRequests == 2
\* Number of bytes the client sends in one behaviour.
MaxBytes == 520
\* The socket offers a chunk of 1..MaxChunk bytes, or all unread bytes.
MaxChunk == 2
\* Longest value string fed to the quote substitution on its own.
MaxValueLen == 4
\* saturating_scale takes operands within ScaleEdge of the edges of its cases.
ScaleEdge == 1

\* ------------------------------------------------------------- constants
\* heapless capacities: Vec<u8, U256>, String<U256>, String<U512>.
Capacity == 256
StrCap == 256
ReplyCap == 512

NL == 10
DQ == 34
SQ == 39

\* ------------------------------------------------------- byte-string text
\* {"req":"
P_req == <<123,34,114,101,113,34,58,34>>
\* Read
S_Read == <<82,101,97,100>>
\* Write
S_Write == <<87,114,105,116,101>>
\* ","attribute":"
P_attr == <<34,44,34,97,116,116,114,105,98,117,116,101,34,58,34>>
\* ","value":"
P_val == <<34,44,34,118,97,108,117,101,34,58,34>>
\* "}
P_end == <<34,125>>
\* {"code":
J_code == <<123,34,99,111,100,101,34,58>>
\* ,"attribute":"
J_attr == <<44,34,97,116,116,114,105,98,117,116,101,34,58,34>>
\* Unknown attribute
M_unknown == <<85,110,107,110,111,119,110,32,97,116,116,114,105,98,117,116,101>>
\* Failed to read attribute
M_read == <<70,97,105,108,101,100,32,116,111,32,114,101,97,100,32,97,116,116,114,105,98,117,116,101>>
\* Failed to encode attribute value
M_enc == <<70,97,105,108,101,100,32,116,111,32,101,110,99,111,100,101,32,97,116,116,114,105,98,117,116,101,32,118,97,108,117,101>>
\* Failed to decode value
M_dec == <<70,97,105,108,101,100,32,116,111,32,100,101,99,111,100,101,32,118,97,108,117,101>>
\* Failed to set attribute
M_set == <<70,97,105,108,101,100,32,116,111,32,115,101,116,32,97,116,116,114,105,98,117,116,101>>
\* command buffer overflow
M_ovf == <<99,111,109,109,97,110,100,32,98,117,102,102,101,114,32,111,118,101,114,102,108,111,119>>
\* parse error
M_parse == <<112,97,114,115,101,32,101,114,114,111,114>>

\* ----------------------------------------------------------- byte helpers
\* Index of the first b in s, 0 when there is none (Iterator::position).
position(s, b) ==
    LET hits == {i \in 1..Len(s) : s[i] = b}
    IN  IF hits = {} THEN 0 ELSE CHOOSE i \in hits : \A j \in hits : i <= j

\* Index of the first b in s at or after from, 0 when there is none.
positionFrom(s, b, from) ==
    LET hits == {i \in from..Len(s) : s[i] = b}
    IN  IF hits = {} THEN 0 ELSE CHOOSE i \in hits : \A j \in hits : i <= j

\* p occurs in s starting at index at.
IsAt(p, s, at) ==
    /\ at + Len(p) - 1 <= Len(s)
    /\ \A i \in 1..Len(p) : s[at + i - 1] = p[i]

Fill(n, b) == [i \in 1..n |-> b]

RECURSIVE Digits(_)
\* Decimal digits of a natural number.
Digits(n) == IF n < 10 THEN <<48 + n>> ELSE Digits(n \div 10) \o <<48 + (n % 10)>>

\* Decimal text of an i32, as the serialiser writes it.
I32Text(n) == IF n < 0 THEN <<45>> \o Digits(0 - n) ELSE Digits(n)

\* ------------------------------------------------------------------ codec
\* s with every byte from replaced by to (the push loop over chars()).
MapByte(s, from, to) == [i \in 1..Len(s) |-> IF s[i] = from THEN to ELSE s[i]]

\* restore_value that leaves the value as it came off the wire.
restore_value_kept(request) == request

\* Request::restore_value: every single quote of value becomes a double quote.
restore_value(request) == [request EXCEPT !.value = MapByte(@, SQ, DQ)]

\* sanitize_value that leaves the double quotes in place.
sanitize_value_kept(res) ==
    [res EXCEPT !.panic = @ \/ Len(res.value) > StrCap]

\* Response::sanitize_value: every double quote of value becomes a single
\* quote; a push beyond the String<U256> capacity fails its unwrap.
sanitize_value(res) ==
    [res EXCEPT !.value = MapByte(@, DQ, SQ),
                !.panic = @ \/ Len(res.value) > StrCap]

\* wrap_and_sanitize_value that wraps the value as it is.
wrap_and_sanitize_value_unsanitized(res) ==
    [res EXCEPT !.value = <<SQ>> \o @ \o <<SQ>>,
                !.panic = @ \/ Len(res.value) + 2 > StrCap]

\* Response::wrap_and_sanitize_value: as sanitize_value, between two single
\* quotes.
wrap_and_sanitize_value(res) ==
    [res EXCEPT !.value = <<SQ>> \o MapByte(@, DQ, SQ) \o <<SQ>>,
                !.panic = @ \/ Len(res.value) + 2 > StrCap]

\* Response { code, attribute, value } before the value is rewritten;
\* String::from panics when the text exceeds the capacity.
NewResponse(code, attribute, value) ==
    [code |-> code, attribute |-> attribute, value |-> value,
     panic |-> Len(attribute) > StrCap \/ Len(value) > StrCap]

\* success that skips sanitize_value.
success_unsanitized(attribute, value) == NewResponse(200, attribute, value)

\* Response::success
success(attribute, value) == sanitize_value(NewResponse(200, attribute, value))

\* error that rewrites the message as success does, without the wrap.
error_unwrapped(attribute, message) ==
    sanitize_value(NewResponse(400, attribute, message))

\* Response::error
error(attribute, message) ==
    wrap_and_sanitize_value(NewResponse(400, attribute, message))

\* Response::custom
custom(code, message) ==
    wrap_and_sanitize_value(NewResponse(code, <<>>, message))

\* to_string into a String<U256>, half the capacity.
to_string_half(msg) ==
    LET s == J_code \o I32Text(msg.code) \o J_attr \o msg.attribute
             \o P_val \o msg.value \o P_end
    IN  [ok |-> Len(s) <= ReplyCap \div 2, s |-> s]

\* to_string into a String of an eighth of the capacity.
to_string_short(msg) ==
    LET s == J_code \o I32Text(msg.code) \o J_attr \o msg.attribute
             \o P_val \o msg.value \o P_end
    IN  [ok |-> Len(s) <= ReplyCap \div 8, s |-> s]

\* serde_json_core::ser::to_string of a Response into a String<U512>:
\* {"code":<code>,"attribute":"<attribute>","value":"<value>"}, no escaping.
to_string(msg) ==
    LET s == J_code \o I32Text(msg.code) \o J_attr \o msg.attribute
             \o P_val \o msg.value \o P_end
    IN  [ok |-> Len(s) <= ReplyCap, s |-> s]

\* json_reply: serialise, push the delimiter, write; ok is FALSE when an
\* unwrap fails.  The socket accepts every string written to it.
json_reply(msg) ==
    LET u == to_string(msg)
    IN  IF msg.panic \/ ~u.ok \/ Len(u.s) + 1 > ReplyCap
        THEN [ok |-> FALSE, wire |-> <<>>]
        ELSE [ok |-> TRUE, wire |-> u.s \o <<NL>>]

NoRequest == [req |-> "None", attribute |-> <<>>, value |-> <<>>]

\* serde_json_core::de::from_slice::<Request>: the line must be
\* {"req":"Read"|"Write","attribute":"<a>","value":"<v>"} with no double
\* quote inside <a> or <v> and <v> within the String<U256> capacity.
from_slice(s) ==
    LET opAt   == Len(P_req) + 1
        req    == IF IsAt(S_Read \o P_attr, s, opAt) THEN "Read"
                  ELSE IF IsAt(S_Write \o P_attr, s, opAt) THEN "Write"
                  ELSE "None"
        aStart == opAt + (IF req = "Read" THEN Len(S_Read) ELSE Len(S_Write))
                  + Len(P_attr)
        aEnd   == positionFrom(s, DQ, aStart)
        vStart == aEnd + Len(P_val)
        vEnd   == positionFrom(s, DQ, vStart)
        ok     == /\ IsAt(P_req, s, 1)
                  /\ req # "None"
                  /\ aEnd > 0
                  /\ IsAt(P_val, s, aEnd)
                  /\ vEnd > 0
                  /\ IsAt(P_end, s, vEnd)
                  /\ vEnd + 1 = Len(s)
                  /\ vEnd - vStart <= StrCap
    IN  IF ok
        THEN [ok |-> TRUE,
              request |-> [req |-> req,
                           attribute |-> SubSeq(s, aStart, aEnd - 1),
                           value |-> SubSeq(s, vStart, vEnd - 1)]]
        ELSE [ok |-> FALSE, request |-> NoRequest]

\* ----------------------------------------------------------------- router
\* The longest name a request the framer accepts can carry: a Read with an
\* empty value whose line, delimiter counted, is one byte short of Capacity.
A_long == Fill(Capacity - 42, 97)

\* Attribute registration handed to route_request!: x has a getter, y a
\* setter, z both, and the longest name a getter.
ReadableAttributes == {<<120>>, <<122>>, A_long}
ModifiableAttributes == {<<121>>, <<122>>}

\* nope, a name that is not registered
A_nope == <<110, 111, 112, 101>>

\* {"foo":1}
V_foo == <<123,34,102,111,111,34,58,49,125>>
\* {"a":1}
V_a1 == <<123,34,97,34,58,49,125>>

\* Texts that serde_json_core::from_str::<$TYPE> accepts for a setter.
DecodableValues == {V_a1, <<49>>}

\* What an accessor call can do: a getter fails or returns a value whose
\* JSON text is ser; a setter fails or succeeds.
NoOutcome == [ok |-> FALSE, ser |-> <<>>]
GetterOutcomes ==
    {NoOutcome, [ok |-> TRUE, ser |-> V_foo],
     [ok |-> TRUE, ser |-> Fill(StrCap, 118)],
     [ok |-> TRUE, ser |-> Fill(StrCap + 1, 118)]}
SetterOutcomes == {NoOutcome, [ok |-> TRUE, ser |-> <<>>]}

\* Accessor that reaches the setter before the value has decoded.
Accessor_undecoded(request) ==
    IF request.req = "Read" /\ request.attribute \in ReadableAttributes
    THEN "get"
    ELSE IF /\ request.req = "Write"
            /\ request.attribute \in ModifiableAttributes
         THEN "set"
         ELSE "none"

\* Which accessor route_request! reaches for a request.
Accessor(request) ==
    IF request.req = "Read" /\ request.attribute \in ReadableAttributes
    THEN "get"
    ELSE IF /\ request.req = "Write"
            /\ request.attribute \in ModifiableAttributes
            /\ request.value \in DecodableValues
         THEN "set"
         ELSE "none"

OutcomesFor(request) ==
    IF Accessor(request) = "get" THEN GetterOutcomes
    ELSE IF Accessor(request) = "set" THEN SetterOutcomes
    ELSE {NoOutcome}

\* route_request! whose Read arm matches every registered name, with or
\* without a getter.
route_request_any(request, o) ==
    IF request.req = "Read"
    THEN IF request.attribute \in ReadableAttributes \cup ModifiableAttributes
         THEN IF ~o.ok
              THEN error(request.attribute, M_read)
              ELSE IF Len(o.ser) > StrCap
                   THEN error(request.attribute, M_enc)
                   ELSE success(request.attribute, o.ser)
         ELSE error(request.attribute, M_unknown)
    ELSE IF request.attribute \in ModifiableAttributes
         THEN IF request.value \notin DecodableValues
              THEN error(request.attribute, M_dec)
              ELSE IF o.ok
                   THEN success(request.attribute, request.value)
                   ELSE error(request.attribute, M_set)
         ELSE error(request.attribute, M_unknown)

\* route_request!: the response for a request, o being what the accessor
\* does when it is called.
route_request(request, o) ==
    IF request.req = "Read"
    THEN IF request.attribute \in ReadableAttributes
         THEN IF ~o.ok
              THEN error(request.attribute, M_read)
              ELSE IF Len(o.ser) > StrCap
                   THEN error(request.attribute, M_enc)
                   ELSE success(request.attribute, o.ser)
         ELSE error(request.attribute, M_unknown)
    ELSE IF request.attribute \in ModifiableAttributes
         THEN IF request.value \notin DecodableValues
              THEN error(request.attribute, M_dec)
              ELSE IF o.ok
                   THEN success(request.attribute, request.value)
                   ELSE error(request.attribute, M_set)
         ELSE error(request.attribute, M_unknown)

\* ------------------------------------------------------------------ state
VARIABLES
    rx,        \* bytes the socket holds unread
    tx,        \* strings written to the socket, in order
    data,      \* Server::data
    discard,   \* Server::discard
    pc,        \* "idle" outside poll, "poll" inside its loop, "panicked"
    panic,     \* which unwrap or slice failed, "none" otherwise
    attrs,     \* value last stored by each setter
    consumed,  \* history: bytes taken from the socket so far
    log,       \* history: one record per completed line
    nsent,     \* history: segments sent so far
    q          \* a function applied on its own: its stage, inputs, results

vars == <<rx, tx, data, discard, pc, panic, attrs, consumed, log, nsent, q>>

\* The client's text of a request, delimiter included.
RequestLine(req, attribute, value) ==
    P_req \o req \o P_attr \o attribute \o P_val \o value \o P_end \o <<NL>>

\* What the client sends in one piece: runs of junk that with a delimiter are
\* one byte short of the buffer capacity and exactly the buffer capacity, a
\* delimiter followed by a Read request (it ends the line before it, or is
\* an empty line), and Write requests: of a value that decodes, of one that
\* does not, of an attribute that is not registered.
Segments ==
    { Fill(Capacity - 2, 120), Fill(Capacity - 1, 120),
      <<NL>> \o RequestLine(S_Read, <<120>>, <<>>),
      RequestLine(S_Write, <<121>>, MapByte(V_a1, DQ, SQ)),
      RequestLine(S_Write, <<121>>, <<110, 111>>),
      RequestLine(S_Write, A_nope, <<>>) }

q0 == [stage |-> "off", orig |-> <<>>, wire |-> <<>>, back |-> <<>>]

\* Server::new, an open connection with nothing received.
Init ==
    /\ rx = <<>>
    /\ tx = <<>>
    /\ data = <<>>
    /\ discard = FALSE
    /\ pc = "idle"
    /\ panic = "none"
    /\ attrs = [a \in ModifiableAttributes |-> <<>>]
    /\ consumed = <<>>
    /\ log = <<>>
    /\ nsent = 0
    /\ q = q0

\* The transport delivers a segment between two polls.
Send(seg) ==
    /\ pc = "idle"
    /\ nsent < MaxSegs
    /\ Len(consumed) + Len(rx) + Len(seg) <= MaxBytes
    /\ rx' = rx \o seg
    /\ nsent' = nsent + 1
    /\ UNCHANGED <<tx, data, discard, pc, panic, attrs, consumed, log, q>>

\* The driver calls Server::poll.
PollCall ==
    /\ pc = "idle"
    /\ pc' = "poll"
    /\ UNCHANGED <<rx, tx, data, discard, panic, attrs, consumed, log, nsent, q>>

\* Vec::extend_from_slice: fails when the result exceeds the capacity.
extend_from_slice(d, s) ==
    IF Len(d) + Len(s) > Capacity
    THEN [ok |-> FALSE, data |-> d]
    ELSE [ok |-> TRUE, data |-> d \o s]

\* recv closure without the capacity test.
recv_closure_unchecked(d, disc, buf, end) ==
    LET found == end > 0
        len   == IF found THEN end ELSE Len(buf)
    IN  IF ~disc /\ len > 0
        THEN LET e == extend_from_slice(d, SubSeq(buf, 1, len))
             IN  [len |-> len, found |-> found, data |-> e.data,
                  discard |-> disc,
                  panic |-> IF e.ok THEN "none" ELSE "extend"]
        ELSE [len |-> len, found |-> found, data |-> d,
              discard |-> disc, panic |-> "none"]

\* recv closure that overflows only beyond the capacity (> for >=).
recv_closure_beyond(d, disc, buf, end) ==
    LET found == end > 0
        len   == IF found THEN end ELSE Len(buf)
    IN  IF Len(d) + len > Capacity
        THEN [len |-> len, found |-> found, data |-> <<>>,
              discard |-> TRUE, panic |-> "none"]
        ELSE IF ~disc /\ len > 0
             THEN LET e == extend_from_slice(d, SubSeq(buf, 1, len))
                  IN  [len |-> len, found |-> found, data |-> e.data,
                       discard |-> disc,
                       panic |-> IF e.ok THEN "none" ELSE "extend"]
             ELSE [len |-> len, found |-> found, data |-> d,
                   discard |-> disc, panic |-> "none"]

\* recv closure that consumes the whole chunk, past the first delimiter.
recv_closure_whole(d, disc, buf, end) ==
    LET found == end > 0
        len   == Len(buf)
    IN  IF Len(d) + len >= Capacity
        THEN [len |-> len, found |-> found, data |-> <<>>,
              discard |-> TRUE, panic |-> "none"]
        ELSE IF ~disc /\ len > 0
             THEN LET e == extend_from_slice(d, SubSeq(buf, 1, len))
                  IN  [len |-> len, found |-> found, data |-> e.data,
                       discard |-> disc,
                       panic |-> IF e.ok THEN "none" ELSE "extend"]
             ELSE [len |-> len, found |-> found, data |-> d,
                   discard |-> disc, panic |-> "none"]

\* recv closure that stores the whole chunk but consumes up to the delimiter.
recv_closure_stored(d, disc, buf, end) ==
    LET found == end > 0
        len   == IF found THEN end ELSE Len(buf)
    IN  IF Len(d) + len >= Capacity
        THEN [len |-> len, found |-> found, data |-> <<>>,
              discard |-> TRUE, panic |-> "none"]
        ELSE IF ~disc /\ len > 0
             THEN LET e == extend_from_slice(d, buf)
                  IN  [len |-> len, found |-> found, data |-> e.data,
                       discard |-> disc,
                       panic |-> IF e.ok THEN "none" ELSE "extend"]
             ELSE [len |-> len, found |-> found, data |-> d,
                   discard |-> disc, panic |-> "none"]

\* recv closure that consumes nothing of a chunk it does not store.
recv_closure_stalled(d, disc, buf, end) ==
    LET found == end > 0
        len   == IF found THEN end ELSE Len(buf)
    IN  IF Len(d) + len >= Capacity
        THEN [len |-> len, found |-> found, data |-> <<>>,
              discard |-> TRUE, panic |-> "none"]
        ELSE IF ~disc /\ len > 0
             THEN LET e == extend_from_slice(d, SubSeq(buf, 1, len))
                  IN  [len |-> len, found |-> found, data |-> e.data,
                       discard |-> disc,
                       panic |-> IF e.ok THEN "none" ELSE "extend"]
             ELSE [len |-> 0, found |-> found,
                   data |-> d, discard |-> disc, panic |-> "none"]

\* recv closure that overflows one byte early.
recv_closure_early(d, disc, buf, end) ==
    LET found == end > 0
        len   == IF found THEN end ELSE Len(buf)
    IN  IF Len(d) + len >= Capacity - 1
        THEN [len |-> len, found |-> found, data |-> <<>>,
              discard |-> TRUE, panic |-> "none"]
        ELSE IF ~disc /\ len > 0
             THEN LET e == extend_from_slice(d, SubSeq(buf, 1, len))
                  IN  [len |-> len, found |-> found, data |-> e.data,
                       discard |-> disc,
                       panic |-> IF e.ok THEN "none" ELSE "extend"]
             ELSE [len |-> len, found |-> found, data |-> d,
                   discard |-> disc, panic |-> "none"]

\* recv closure that goes on storing while it discards.
recv_closure_storing(d, disc, buf, end) ==
    LET found == end > 0
        len   == IF found THEN end ELSE Len(buf)
    IN  IF Len(d) + len >= Capacity
        THEN [len |-> len, found |-> found, data |-> <<>>,
              discard |-> TRUE, panic |-> "none"]
        ELSE IF len > 0
             THEN LET e == extend_from_slice(d, SubSeq(buf, 1, len))
                  IN  [len |-> len, found |-> found, data |-> e.data,
                       discard |-> disc,
                       panic |-> IF e.ok THEN "none" ELSE "extend"]
             ELSE [len |-> len, found |-> found, data |-> d,
                   discard |-> disc, panic |-> "none"]

\* recv closure that stores a chunk only when it is longer than one byte.
recv_closure_bare(d, disc, buf, end) ==
    LET found == end > 0
        len   == IF found THEN end ELSE Len(buf)
    IN  IF Len(d) + len >= Capacity
        THEN [len |-> len, found |-> found, data |-> <<>>,
              discard |-> TRUE, panic |-> "none"]
        ELSE IF ~disc /\ len > 1
             THEN LET e == extend_from_slice(d, SubSeq(buf, 1, len))
                  IN  [len |-> len, found |-> found, data |-> e.data,
                       discard |-> disc,
                       panic |-> IF e.ok THEN "none" ELSE "extend"]
             ELSE [len |-> len, found |-> found, data |-> d,
                   discard |-> disc, panic |-> "none"]

\* The body of the closure poll hands to socket.recv, end being the index of
\* the first delimiter of buf (0 when there is none).
recv_closure(d, disc, buf, end) ==
    LET found == end > 0
        len   == IF found THEN end ELSE Len(buf)
    IN  IF Len(d) + len >= Capacity
        THEN [len |-> len, found |-> found, data |-> <<>>,
              discard |-> TRUE, panic |-> "none"]
        ELSE IF ~disc /\ len > 0
             THEN LET e == extend_from_slice(d, SubSeq(buf, 1, len))
                  IN  [len |-> len, found |-> found, data |-> e.data,
                       discard |-> disc,
                       panic |-> IF e.ok THEN "none" ELSE "extend"]
             ELSE [len |-> len, found |-> found, data |-> d,
                   discard |-> disc, panic |-> "none"]

\* The closure poll hands to socket.recv: buf is the contiguous chunk the
\* socket offers; len bytes of it are consumed.
recv_callback(d, disc, buf) == recv_closure(d, disc, buf, position(buf, NL))

NoResponse == [code |-> 0, attribute |-> <<>>, value |-> <<>>, panic |-> FALSE]

\* History of one completed line: whether it completed while discarding,
\* whether and on which bytes from_slice ran and succeeded, the request as
\* decoded (raw) and as handed to the closure, how often the closure ran,
\* the accessor it reached and what that did, and the response.
LogEntry(discarded, decoded, input, parsed, raw, request, accessor, o, res) ==
    [discarded |-> discarded, decoded |-> decoded, input |-> input,
     parsed |-> parsed, raw |-> raw, request |-> request,
     calls |-> IF parsed THEN 1 ELSE 0,
     accessor |-> accessor, outcome |-> o, response |-> res]

\* poll, `if self.discard` branch: the fixed overflow response.
overflow_line ==
    LET res == custom(520, M_ovf)
    IN  [panic |-> "none", res |-> res, attrs |-> attrs,
         entry |-> LogEntry(TRUE, FALSE, <<>>, FALSE, NoRequest,
                            NoRequest, "none", NoOutcome, res)]

\* poll, else branch: strip the delimiter, decode, restore the value and call
\* the closure f (route_request! over the registered attributes), or answer
\* the parse error.
decode_line(d, o) ==
    IF Len(d) = 0
    THEN [panic |-> "slice", res |-> NoResponse, attrs |-> attrs,
          entry |-> LogEntry(FALSE, FALSE, <<>>, FALSE, NoRequest,
                             NoRequest, "none", NoOutcome, NoResponse)]
    ELSE LET input == SubSeq(d, 1, Len(d) - 1)
             r     == from_slice(input)
         IN  IF r.ok
             THEN LET request == restore_value(r.request)
                      acc == Accessor(request)
                      res == route_request(request, o)
                  IN  [panic |-> "none", res |-> res,
                       attrs |-> IF acc = "set" /\ o.ok
                                 THEN [attrs EXCEPT
                                       ![request.attribute] = request.value]
                                 ELSE attrs,
                       entry |-> LogEntry(FALSE, TRUE, input, TRUE,
                                          r.request, request, acc, o, res)]
             ELSE LET res == custom(550, M_parse)
                  IN  [panic |-> "none", res |-> res, attrs |-> attrs,
                       entry |-> LogEntry(FALSE, TRUE, input, FALSE,
                                          NoRequest, NoRequest, "none",
                                          NoOutcome, res)]

\* complete_line that decodes without looking at the discard flag.
complete_line_undiscarded(d, disc, o) == decode_line(d, o)

\* The body of poll's `if found`: what a completed line does.  d and disc
\* are the accumulator as the recv closure left it.
complete_line(d, disc, o) ==
    IF disc THEN overflow_line ELSE decode_line(d, o)

\* What the accessor reached by a line can do, cb being the result of the
\* recv closure (no choice when no accessor is reached).
OutcomesOf(cb) ==
    IF cb.found /\ ~cb.discard /\ cb.panic = "none" /\ Len(cb.data) > 0
    THEN LET r == from_slice(SubSeq(cb.data, 1, Len(cb.data) - 1))
         IN  IF r.ok THEN OutcomesFor(restore_value(r.request))
             ELSE {NoOutcome}
    ELSE {NoOutcome}

\* The contiguous chunks socket.recv can offer: the first 1..MaxChunk unread
\* bytes, or all of them.
Chunks ==
    {SubSeq(rx, 1, k) : k \in {n \in 1..Len(rx) : n <= MaxChunk \/ n = Len(rx)}}

\* AnswerLine that leaves the answered line in the buffer.
AnswerLine_kept(cb, c, w) ==
    IF c.panic # "none"
    THEN /\ pc' = "panicked"
         /\ panic' = c.panic
         /\ data' = cb.data
         /\ discard' = cb.discard
         /\ UNCHANGED <<tx, attrs, log>>
    ELSE IF ~w.ok
    THEN /\ pc' = "panicked"
         /\ panic' = "reply"
         /\ data' = cb.data
         /\ discard' = FALSE
         /\ attrs' = c.attrs
         /\ log' = Append(log, c.entry)
         /\ UNCHANGED tx
    ELSE /\ data' = cb.data
         /\ discard' = FALSE
         /\ attrs' = c.attrs
         /\ tx' = Append(tx, w.wire)
         /\ log' = Append(log, c.entry)
         /\ UNCHANGED <<pc, panic>>

\* poll's `if found` block and the write of its reply: c is what the
\* completed line did, w the outcome of json_reply.
AnswerLine(cb, c, w) ==
    IF c.panic # "none"
    THEN /\ pc' = "panicked"
         /\ panic' = c.panic
         /\ data' = cb.data
         /\ discard' = cb.discard
         /\ UNCHANGED <<tx, attrs, log>>
    ELSE IF ~w.ok
    THEN /\ pc' = "panicked"
         /\ panic' = "reply"
         /\ data' = cb.data
         /\ discard' = FALSE
         /\ attrs' = c.attrs
         /\ log' = Append(log, c.entry)
         /\ UNCHANGED tx
    ELSE /\ data' = <<>>
         /\ discard' = FALSE
         /\ attrs' = c.attrs
         /\ tx' = Append(tx, w.wire)
         /\ log' = Append(log, c.entry)
         /\ UNCHANGED <<pc, panic>>

\* One iteration of poll's while loop after socket.recv returned cb, o being
\* what the accessor reached by a completed line does.
PollBody(cb, o) ==
    /\ rx' = SubSeq(rx, cb.len + 1, Len(rx))
    /\ consumed' = consumed \o SubSeq(rx, 1, cb.len)
    /\ IF cb.panic # "none"
       THEN /\ pc' = "panicked"
            /\ panic' = cb.panic
            /\ data' = cb.data
            /\ discard' = cb.discard
            /\ UNCHANGED <<tx, attrs, log>>
       ELSE IF ~cb.found
       THEN /\ data' = cb.data
            /\ discard' = cb.discard
            /\ UNCHANGED <<tx, attrs, log, pc, panic>>
       ELSE \E c \in {complete_line(cb.data, cb.discard, o)} :
                \E w \in {json_reply(c.res)} : AnswerLine(cb, c, w)

\* One iteration of poll's while loop: socket.recv offers the chunk the
\* closure turned into cb; a completed line is answered before the next
\* iteration.
PollIter(cb, o) ==
    /\ pc = "poll"
    /\ rx # <<>>
    /\ PollBody(cb, o)
    /\ UNCHANGED <<nsent, q>>

\* The iterations poll can take in the current state: while
\* socket.can_recv(), one recv per iteration.
PollLoop ==
    /\ pc = "poll"
    /\ rx # <<>>
    /\ \E buf \in Chunks :
         \E cb \in {recv_callback(data, discard, buf)} :
           \E o \in OutcomesOf(cb) : PollIter(cb, o)

\* socket.can_recv() is false: poll returns.
PollReturn ==
    /\ pc = "poll"
    /\ rx = <<>>
    /\ pc' = "idle"
    /\ UNCHANGED <<rx, tx, data, discard, panic, attrs, consumed, log, nsent, q>>

Next ==
    \/ \E seg \in Segments : Send(seg)
    \/ PollCall
    \/ PollLoop
    \/ PollReturn

Spec == Init /\ [][Next]_vars

\* A step of a poll that was called: an iteration of its loop or its return.
PollStep == PollLoop \/ PollReturn

\* The segments sent where the return of poll is checked: a delimiter, a run
\* of junk that overflows the buffer, a delimiter followed by a request.
DrainSegments ==
    { <<NL>>, Fill(Capacity - 1, 120),
      <<NL>> \o RequestLine(S_Read, <<120>>, <<>>) }

SendDrain(seg) ==
    /\ pc = "idle"
    /\ nsent < MaxDrainSegs
    /\ Len(consumed) + Len(rx) + Len(seg) <= MaxBytes
    /\ rx' = rx \o seg
    /\ nsent' = nsent + 1
    /\ UNCHANGED <<tx, data, discard, pc, panic, attrs, consumed, log, q>>

DrainNext ==
    \/ \E seg \in DrainSegments : SendDrain(seg)
    \/ PollCall
    \/ PollLoop
    \/ PollReturn

\* poll is a synchronous call: once called it runs its loop to the return
\* without yielding, so its steps are taken as long as one is possible.
FairSpec == Init /\ [][DrainNext]_vars /\ WF_vars(PollStep)

\* The requests sent where the routing is checked: a Read of y (setter
\* only), of z (getter and setter) and of nope (not registered), a Write to
\* x (getter only), to z with a value that decodes and with one that does
\* not, and to nope.
RouteSegments ==
    { RequestLine(S_Read, <<121>>, <<>>),
      RequestLine(S_Read, <<122>>, <<>>),
      RequestLine(S_Read, A_nope, <<>>),
      RequestLine(S_Write, <<120>>, <<49>>),
      RequestLine(S_Write, <<122>>, MapByte(V_a1, DQ, SQ)),
      RequestLine(S_Write, <<122>>, <<110, 111>>),
      RequestLine(S_Write, A_nope, <<>>) }

SendRequest(seg) ==
    /\ pc = "idle"
    /\ nsent < MaxRequests
    /\ Len(consumed) + Len(rx) + Len(seg) <= MaxBytes
    /\ rx' = rx \o seg
    /\ nsent' = nsent + 1
    /\ UNCHANGED <<tx, data, discard, pc, panic, attrs, consumed, log, q>>

RouteNext ==
    \/ \E seg \in RouteSegments : SendRequest(seg)
    \/ PollCall
    \/ PollLoop
    \/ PollReturn

RouteSpec == Init /\ [][RouteNext]_vars

\* The input where the sizes of the replies are checked: the longest Read
\* line the framer accepts, naming the longest registered name; a Write line
\* of the same length to a name that is not registered; an empty line; a
\* run of junk that with a delimiter reaches the buffer capacity.
SizeSegments ==
    { RequestLine(S_Read, A_long, <<>>),
      RequestLine(S_Write, Fill(Capacity - 43, 98), <<>>),
      <<NL>>,
      Fill(Capacity - 1, 120) }

SizeNext ==
    \/ \E seg \in SizeSegments : SendRequest(seg)
    \/ PollCall
    \/ PollLoop
    \/ PollReturn

SizeSpec == Init /\ [][SizeNext]_vars

\* ------------------------------------------- quote substitution on its own
\* Value strings over a letter, the single quote and the double quote.
QuoteBytes == {97, SQ, DQ}
Values == UNION {[1..n -> QuoteBytes] : n \in 0..MaxValueLen}

QInit ==
    /\ rx = <<>>
    /\ tx = <<>>
    /\ data = <<>>
    /\ discard = FALSE
    /\ pc = "idle"
    /\ panic = "none"
    /\ attrs = [a \in ModifiableAttributes |-> <<>>]
    /\ consumed = <<>>
    /\ log = <<>>
    /\ nsent = 0
    /\ q \in {[stage |-> "value", orig |-> v, wire |-> <<>>, back |-> <<>>] :
              v \in Values}

\* Encode side: Response::success rewrites the value it is given.
QEncode ==
    /\ q.stage = "value"
    /\ q' = [q EXCEPT !.stage = "encoded",
                      !.wire = success(<<>>, q.orig).value]
    /\ UNCHANGED <<rx, tx, data, discard, pc, panic, attrs, consumed, log, nsent>>

\* Decode side: Request::restore_value rewrites the value read off the wire.
QDecode ==
    /\ q.stage = "encoded"
    /\ q' = [q EXCEPT !.stage = "decoded",
                      !.back = restore_value([req |-> "Write",
                                              attribute |-> <<>>,
                                              value |-> q.wire]).value]
    /\ UNCHANGED <<rx, tx, data, discard, pc, panic, attrs, consumed, log, nsent>>

QNext == QEncode \/ QDecode

QuoteSpec == QInit /\ [][QNext]_vars

\* ------------------------------------- Response constructors on their own
\* Codes handed to Response::custom and names handed to the constructors.
Codes == {520, 550, 0 - 1}
Names == {<<>>, A_nope}

\* Texts handed to the constructors: the value strings, and at the String
\* capacity the longest text error and custom take, the longest success
\* takes and the shortest none takes.
Messages ==
    Values \cup {Fill(StrCap - 2, DQ), Fill(StrCap, DQ), Fill(StrCap + 1, DQ)}

RInit ==
    /\ rx = <<>>
    /\ tx = <<>>
    /\ data = <<>>
    /\ discard = FALSE
    /\ pc = "idle"
    /\ panic = "none"
    /\ attrs = [a \in ModifiableAttributes |-> <<>>]
    /\ consumed = <<>>
    /\ log = <<>>
    /\ nsent = 0
    /\ q \in {[stage |-> "input", code |-> c, attribute |-> a, message |-> m,
               res |-> NoResponse] :
              c \in Codes, a \in Names, m \in Messages}

RSuccess ==
    /\ q.stage = "input"
    /\ q' = [q EXCEPT !.stage = "success",
                      !.res = success(q.attribute, q.message)]
    /\ UNCHANGED <<rx, tx, data, discard, pc, panic, attrs, consumed, log, nsent>>

RError ==
    /\ q.stage = "input"
    /\ q' = [q EXCEPT !.stage = "error",
                      !.res = error(q.attribute, q.message)]
    /\ UNCHANGED <<rx, tx, data, discard, pc, panic, attrs, consumed, log, nsent>>

RCustom ==
    /\ q.stage = "input"
    /\ q' = [q EXCEPT !.stage = "custom",
                      !.res = custom(q.code, q.message)]
    /\ UNCHANGED <<rx, tx, data, discard, pc, panic, attrs, consumed, log, nsent>>

RNext == RSuccess \/ RError \/ RCustom

ResponseSpec == RInit /\ [][RNext]_vars

\* ------------------------------------------------- dsp: saturating_scale
I32Max == 2147483647
I32Min == 0 - I32Max - 1

\* x >> n on an i32: the arithmetic shift, n in 0..31.
Shr(x, n) == IF n = 31 THEN (IF x < 0 THEN 0 - 1 ELSE 0) ELSE x \div 2^n

\* x << n on an i32, n in 0..31: the low 32 - n bits of x moved up, the
\* topmost of them becoming the sign; the bits shifted out are dropped
\* without a check.
Shl(x, n) ==
    IF n = 0 THEN x
    ELSE LET h == 2^(31 - n)
             r == x % h
             b == (x \div h) % 2
         IN  ((IF b = 1 THEN r - h ELSE r) * 2^(n - 1)) * 2

\* a + b on i32 leaves the type.
AddOverflows(a, b) ==
    IF b >= 0 THEN a > I32Max - b ELSE a < I32Min - b

\* a + b as two's complement arithmetic wraps it.
WrappingAdd(a, b) ==
    IF ~AddOverflows(a, b) THEN a + b
    ELSE IF b >= 0 THEN (a + I32Min) + (b + I32Min)
    ELSE (a - I32Min) + (b - I32Min)

\* saturating_scale: the value returned and whether the addition of the
\* last branch overflowed.
saturating_scale(lo, hi, shift) ==
    LET shift_hi == 31 - shift
        over     == Shr(hi, shift)
    IN  IF over < 0 - 1 THEN [value |-> I32Min, overflow |-> FALSE]
        ELSE IF over > 0 THEN [value |-> I32Max, overflow |-> FALSE]
        ELSE [value |-> WrappingAdd(Shr(lo, shift), Shl(hi, shift_hi)),
              overflow |-> AddOverflows(Shr(lo, shift), Shl(hi, shift_hi))]

\* The i32 values within ScaleEdge of v.
Near(v) ==
    {v + d : d \in {e \in (0 - ScaleEdge)..ScaleEdge :
                       /\ (e > 0 => v <= I32Max - e)
                       /\ (e < 0 => v >= I32Min - e)}}

\* 2^n as an i32 bound, n in 0..31 (2^31 is one past the largest i32).
Edges(n) == IF n = 31 THEN {I32Min, I32Max} ELSE {2^n, 0 - 2^n}

\* Operands of saturating_scale: every shift, and lo and hi around zero, the
\* ends of the type and the values where hi >> shift changes case.
ScaleArgs ==
    UNION { { [lo |-> lo, hi |-> hi, shift |-> shift] :
              lo \in Near(I32Min) \cup Near(0) \cup Near(I32Max),
              hi \in UNION {Near(v) : v \in {I32Min, 0, I32Max}
                                           \cup Edges(shift)} } :
            shift \in 0..31 }

SInit ==
    /\ rx = <<>>
    /\ tx = <<>>
    /\ data = <<>>
    /\ discard = FALSE
    /\ pc = "idle"
    /\ panic = "none"
    /\ attrs = [a \in ModifiableAttributes |-> <<>>]
    /\ consumed = <<>>
    /\ log = <<>>
    /\ nsent = 0
    /\ q \in {[stage |-> "args", args |-> a, out |-> 0] : a \in ScaleArgs}

\* A build with overflow checks (debug): an addition that overflows panics.
ScaleChecked ==
    /\ q.stage = "args"
    /\ \E r \in {saturating_scale(q.args.lo, q.args.hi, q.args.shift)} :
         q' = IF r.overflow
              THEN [q EXCEPT !.stage = "panicked"]
              ELSE [q EXCEPT !.stage = "returned", !.out = r.value]
    /\ UNCHANGED <<rx, tx, data, discard, pc, panic, attrs, consumed, log, nsent>>

\* A build without overflow checks (release): the addition wraps.
ScaleWrapping ==
    /\ q.stage = "args"
    /\ \E r \in {saturating_scale(q.args.lo, q.args.hi, q.args.shift)} :
         q' = [q EXCEPT !.stage = "returned", !.out = r.value]
    /\ UNCHANGED <<rx, tx, data, discard, pc, panic, attrs, consumed, log, nsent>>

SNext == ScaleChecked \/ ScaleWrapping

ScaleSpec == SInit /\ [][SNext]_vars

\* --------------------------------------------- reference framing of a stream
\* Positions of the delimiters of a byte stream.
DelimPos(s) == {i \in 1..Len(s) : s[i] = NL}

\* Number of complete lines of a byte stream.
NumLines(s) == Cardinality(DelimPos(s))

\* Position of the i-th delimiter, given the positions D of the delimiters.
NthOf(D, i) == CHOOSE p \in D : Cardinality({r \in D : r <= p}) = i

\* The complete lines of s, each with its delimiter, D being the positions of
\* the delimiters of s.
LinesOf(s, D) ==
    [i \in 1..Cardinality(D) |->
        SubSeq(s, IF i = 1 THEN 1 ELSE NthOf(D, i - 1) + 1, NthOf(D, i))]

Lines(s) == LinesOf(s, DelimPos(s))

\* A line without its last byte, the delimiter.
Body(l) == SubSeq(l, 1, Len(l) - 1)

\* The bytes of s after its last delimiter: the line not yet terminated.
LastDelim(D) == IF D = {} THEN 0 ELSE CHOOSE p \in D : \A r \in D : r <= p
Partial(s) == SubSeq(s, LastDelim(DelimPos(s)) + 1, Len(s))

\* A line whose byte count, delimiter included, reaches the capacity.
Oversize(l) == Len(l) >= Capacity

\* {"code":520,"attribute":"","value":"'command buffer overflow'"} \n
W_520 == <<123,34,99,111,100,101,34,58,53,50,48,44,34,97,116,116,114,105,98,117,116,101,34,58,34,34,44,34,118,97,108,117,101,34,58,34,39,99,111,109,109,97,110,100,32,98,117,102,102,101,114,32,111,118,101,114,102,108,111,119,39,34,125,10>>
\* {"code":550,"attribute":"","value":"'parse error'"} \n
W_550 == <<123,34,99,111,100,101,34,58,53,53,48,44,34,97,116,116,114,105,98,117,116,101,34,58,34,34,44,34,118,97,108,117,101,34,58,34,39,112,97,114,115,101,32,101,114,114,111,114,39,34,125,10>>

\* The reply a completed line calls for, whatever chunks it arrived in: l is
\* the line, r the decoding of its body, o what the accessor did.
ReplyFor(l, r, o) ==
    IF Oversize(l) THEN W_520
    ELSE IF ~r.ok THEN W_550
    ELSE json_reply(route_request(restore_value(r.request), o)).wire

ReplyOfLine(l, o) == ReplyFor(l, from_slice(Body(l)), o)

\* C1: after any polls over any chunks, the replies written are as many as
\* the delimiters consumed, the i-th reply is the reply for the i-th completed
\* line, and the line not yet terminated has no reply.
C1_OneReplyPerLineInOrder ==
    \A L \in {Lines(consumed)} :
        /\ Len(tx) = NumLines(consumed)
        /\ Len(tx) = Len(L)
        /\ Len(log) = Len(tx)
        /\ \A i \in 1..Len(tx) : tx[i] = ReplyOfLine(L[i], log[i].outcome)

\* Two lines answered while a third, begun, waits for its delimiter.
C1_Witness ==
    /\ Len(tx) >= 2
    /\ Partial(consumed) # <<>>
    /\ \E i \in 1..Len(log) : log[i].response.code = 200

\* C2: the accumulator never holds more than its capacity and the append in
\* the receive closure never fails.
C2_BufferWithinCapacity ==
    /\ Len(data) <= Capacity
    /\ panic # "extend"

\* The accumulator as full as it gets.
C2_Witness == Len(data) = Capacity - 1 /\ ~discard

\* C3: a line of 256 bytes or more, however chunked, gets exactly one reply,
\* the 520 reply, at its delimiter, without decode or dispatch; at every line
\* boundary the accumulator is empty and not discarding, and the line after
\* an oversize line is framed in full.
C3_OversizeLineOneOverflowReply ==
    \A L \in {Lines(consumed)} :
        /\ \A i \in 1..Len(L) :
             Oversize(L[i]) =>
               /\ i <= Len(tx) /\ i <= Len(log)
               /\ tx[i] = W_520
               /\ log[i].discarded /\ ~log[i].decoded /\ log[i].calls = 0
               /\ (i < Len(L) /\ ~Oversize(L[i + 1])) =>
                    /\ i + 1 <= Len(log)
                    /\ log[i + 1].decoded
                    /\ log[i + 1].input = Body(L[i + 1])
        /\ Cardinality({i \in 1..Len(log) : log[i].response.code = 520})
             = Cardinality({i \in 1..Len(L) : Oversize(L[i])})
        /\ Len(tx) = Len(L)
        /\ (consumed # <<>> /\ consumed[Len(consumed)] = NL) =>
             (data = <<>> /\ ~discard)

\* An oversize line answered 520, then a request answered 200.
C3_Witness ==
    \E i \in 1..(Len(log) - 1) :
        /\ Oversize(Lines(consumed)[i])
        /\ log[i].response.code = 520
        /\ log[i + 1].response.code = 200

\* C4: when no line of the stream reaches the capacity (delimiter counted),
\* the bytes handed to decode are the lines of the stream whatever the
\* chunking and the polls, the unterminated rest is held in full, and the
\* bytes consumed are the bytes of the stream up to the first delimiter of
\* each chunk.
C4_FramingIndependentOfChunking ==
    \A L \in {Lines(consumed)} : \A rest \in {Partial(consumed)} :
        ( /\ \A i \in 1..Len(L) : ~Oversize(L[i])
          /\ Len(rest) < Capacity )
        => /\ Len(log) = Len(L)
           /\ \A i \in 1..Len(log) :
                log[i].decoded /\ log[i].input = Body(L[i])
           /\ data = rest
           /\ ~discard

\* Two lines, the longest the framer takes among them, both decoded.
C4_Witness ==
    /\ Len(log) >= 2
    /\ \A i \in 1..Len(log) : ~log[i].discarded
    /\ \E i \in 1..Len(log) : Len(log[i].input) = Capacity - 2
    /\ \E i \in 1..Len(log) : log[i].parsed

\* Every byte of string s.
Bytes(s) == {s[i] : i \in 1..Len(s)}

\* C5 as stated: for every value, success's rewrite followed by
\* restore_value gives the value back.
C5_RoundTripEveryValue ==
    q.stage = "decoded" => q.back = q.orig

\* C5, amended: for every value with no single quote in it (double quotes in
\* any number), success's rewrite followed by restore_value gives the value
\* back; a single quote of the value comes back as a double quote.
C5_RoundTripWithoutSingleQuote ==
    (q.stage = "decoded" /\ SQ \notin Bytes(q.orig)) => q.back = q.orig

\* A value with double quotes went through encode and decode.
C5_Witness ==
    /\ q.stage = "decoded"
    /\ SQ \notin Bytes(q.orig)
    /\ DQ \in Bytes(q.orig)
    /\ DQ \notin Bytes(q.wire)
    /\ Len(q.orig) >= 2

C7_DispatchOncePerDecodedLine ==
    \A L \in {Lines(consumed)} :
        /\ Len(log) = Len(L)
        /\ Len(tx) = Len(log)
        /\ \A i \in 1..Len(log) : \A r \in {from_slice(Body(L[i]))} :
             /\ log[i].calls = IF ~Oversize(L[i]) /\ r.ok THEN 1 ELSE 0
             /\ (~Oversize(L[i]) /\ ~r.ok) =>
                  /\ tx[i] = W_550
                  /\ log[i].decoded
                  /\ log[i].accessor = "none"
             /\ log[i].discarded =>
                  /\ tx[i] = W_520
                  /\ ~log[i].decoded
                  /\ log[i].calls = 0
                  /\ log[i].accessor = "none"

\* A line that failed to decode and a line that was dispatched.
C7_Witness ==
    /\ \E i \in 1..Len(log) : log[i].decoded /\ ~log[i].parsed /\ tx[i] = W_550
    /\ \E i \in 1..Len(log) : log[i].calls = 1

\* C8: every iteration of poll's loop takes at least one byte off the socket,
\* poll returns only when the socket has nothing unread, and a poll that was
\* called returns.
C8_PollDrainsAndReturns ==
    /\ [][(pc = "poll" /\ pc' = "poll") => Len(rx') < Len(rx)]_vars
    /\ [][(pc = "poll" /\ pc' = "idle") => (rx = <<>> /\ rx' = <<>>)]_vars
    /\ (pc = "poll" ~> pc = "idle")

\* poll returned after it took an oversize line and a request off the socket
\* in more than one iteration.
C8_Witness ==
    /\ pc = "idle"
    /\ rx = <<>>
    /\ Len(tx) >= 2
    /\ Len(consumed) > Capacity
    /\ \E i \in 1..Len(log) : log[i].discarded

\* {"code":200,"attribute":"x","value":"{'foo':1}"} \n
W_ex9 == <<123,34,99,111,100,101,34,58,50,48,48,44,34,97,116,116,114,105,98,117,116,101,34,58,34,120,34,44,34,118,97,108,117,101,34,58,34,123,39,102,111,111,39,58,49,125,34,125,10>>
\* {"code":400,"attribute":"x","value":"'Failed to read attribute'"} \n
W_readfail == <<123,34,99,111,100,101,34,58,52,48,48,44,34,97,116,116,114,105,98,117,116,101,34,58,34,120,34,44,34,118,97,108,117,101,34,58,34,39,70,97,105,108,101,100,32,116,111,32,114,101,97,100,32,97,116,116,114,105,98,117,116,101,39,34,125,10>>
\* {"code":200,"attribute":"y","value":"{'a':1}"} \n
W_wrote == <<123,34,99,111,100,101,34,58,50,48,48,44,34,97,116,116,114,105,98,117,116,101,34,58,34,121,34,44,34,118,97,108,117,101,34,58,34,123,39,97,39,58,49,125,34,125,10>>
\* {"code":400,"attribute":"y","value":"'Failed to decode value'"} \n
W_decfail == <<123,34,99,111,100,101,34,58,52,48,48,44,34,97,116,116,114,105,98,117,116,101,34,58,34,121,34,44,34,118,97,108,117,101,34,58,34,39,70,97,105,108,101,100,32,116,111,32,100,101,99,111,100,101,32,118,97,108,117,101,39,34,125,10>>

\* A message between single quotes, as an error reply carries it.
Quoted(m) == <<SQ>> \o m \o <<SQ>>

\* The three fields of a response.
Fields(res) == <<res.code, res.attribute, res.value>>

\* The reply the Read arm owes for log entry e, w being the string written.
ReadRepliedAsSpecified(e, w) ==
    IF ~e.outcome.ok
    THEN /\ Fields(e.response) = <<400, e.request.attribute, Quoted(M_read)>>
         /\ (e.request.attribute = <<120>> => w = W_readfail)
    ELSE IF Len(e.outcome.ser) > StrCap
    THEN Fields(e.response) = <<400, e.request.attribute, Quoted(M_enc)>>
    ELSE /\ e.response.code = 200
         /\ e.response.attribute = e.request.attribute
         /\ Len(e.response.value) = Len(e.outcome.ser)
         /\ \A j \in 1..Len(e.outcome.ser) :
              e.response.value[j] =
                IF e.outcome.ser[j] = DQ THEN SQ ELSE e.outcome.ser[j]
         /\ (e.request.attribute = <<120>> /\ e.outcome.ser = V_foo)
              => w = W_ex9

WriteRepliedAsSpecified(e, w) ==
    IF e.request.value \notin DecodableValues
    THEN /\ Fields(e.response) = <<400, e.request.attribute, Quoted(M_dec)>>
         /\ e.accessor = "none"
         /\ (e.request.attribute = <<121>> => w = W_decfail)
    ELSE IF ~e.outcome.ok
    THEN /\ Fields(e.response) = <<400, e.request.attribute, Quoted(M_set)>>
         /\ e.accessor = "set"
    ELSE /\ Fields(e.response) = <<200, e.request.attribute, e.raw.value>>
         /\ e.accessor = "set"
         /\ (e.request.attribute = <<121>> /\ e.request.value = V_a1)
              => w = W_wrote

W_400 == <<123,34,99,111,100,101,34,58,52,48,48,44,34,97,116,116,114,105,98,117,116,101,34,58,34>>
\* ","value":"'Unknown attribute'"} \n
W_unknownTail == <<34,44,34,118,97,108,117,101,34,58,34,39,85,110,107,110,111,119,110,32,97,116,116,114,105,98,117,116,101,39,34,125,10>>
\* {"code":400,"attribute":"nope","value":"'Unknown attribute'"} \n
W_nope == <<123,34,99,111,100,101,34,58,52,48,48,44,34,97,116,116,114,105,98,117,116,101,34,58,34,110,111,112,101,34,44,34,118,97,108,117,101,34,58,34,39,85,110,107,110,111,119,110,32,97,116,116,114,105,98,117,116,101,39,34,125,10>>

\* The registration has no accessor for the operation of the request: no
\* getter for a Read, no setter for a Write.
LacksAccessor(request) ==
    \/ request.req = "Read" /\ request.attribute \notin ReadableAttributes
    \/ request.req = "Write" /\ request.attribute \notin ModifiableAttributes

\* C11: a Read of an attribute with a setter only, a Write to an attribute
\* with a getter only and any operation on a name that is not registered are
\* all answered code 400, the attribute of the request and 'Unknown
\* attribute' between single quotes; a Write to nope is answered as the
\* literal reply above.
C11_UnknownAttributeReplies ==
    /\ Len(tx) = Len(log)
    /\ \A i \in 1..Len(log) :
         (log[i].parsed /\ LacksAccessor(log[i].raw)) =>
            /\ Fields(log[i].response)
                 = <<400, log[i].raw.attribute, Quoted(M_unknown)>>
            /\ tx[i] = W_400 \o log[i].raw.attribute \o W_unknownTail
            /\ (log[i].raw.req = "Write" /\ log[i].raw.attribute = A_nope)
                 => tx[i] = W_nope

\* A Read of y, which has a setter only, and a Write to nope, both answered.
C11_Witness ==
    /\ \E i \in 1..Len(tx) :
         /\ log[i].raw.req = "Read"
         /\ log[i].raw.attribute = <<121>>
         /\ log[i].response.code = 400
    /\ \E i \in 1..Len(tx) :
         /\ log[i].raw.req = "Write"
         /\ tx[i] = W_nope

\* The value the successful setter calls of the log stored last for a.
LastSet(a) ==
    LET S == {i \in 1..Len(log) : /\ log[i].accessor = "set"
                                  /\ log[i].outcome.ok
                                  /\ log[i].request.attribute = a}
    IN  IF S = {} THEN <<>>
        ELSE log[CHOOSE i \in S : \A j \in S : j <= i].request.value

\* C12: a request reaches at most one accessor, once: a Read only the getter
\* of its attribute, a Write only the setter of its attribute and only with a
\* value that decoded; a request answered 'Unknown attribute' or 'Failed to
\* decode value' reaches none, and what the setters stored is what the
\* successful setter calls stored, nothing else.
C12_AtMostOneAccessorCall ==
    /\ \A i \in 1..Len(log) : \A e \in {log[i]} :
         /\ e.calls <= 1
         /\ e.accessor \in {"none", "get", "set"}
         /\ e.calls = 0 => e.accessor = "none"
         /\ e.accessor = "get" =>
              /\ e.request.req = "Read"
              /\ e.request.attribute \in ReadableAttributes
         /\ e.accessor = "set" =>
              /\ e.request.req = "Write"
              /\ e.request.attribute \in ModifiableAttributes
              /\ e.request.value \in DecodableValues
         /\ e.response.value \in {Quoted(M_unknown), Quoted(M_dec)} =>
              e.accessor = "none"
    /\ \A a \in ModifiableAttributes : attrs[a] = LastSet(a)

\* z was written, and a later Write to z whose value does not decode left
\* what was stored in place.
C12_Witness ==
    \E i \in 1..Len(log) : \E j \in (i + 1)..Len(log) :
        /\ log[i].accessor = "set" /\ log[i].outcome.ok
        /\ log[i].request.attribute = <<122>>
        /\ log[j].request.req = "Write"
        /\ log[j].request.attribute = <<122>>
        /\ log[j].response.value = Quoted(M_dec)
        /\ attrs[<<122>>] = V_a1

\* A response was built: a constructor ran and none of its pushes failed.
Built == q.stage \in {"success", "error", "custom"} /\ ~q.res.panic

RewrittenAt(v, m, at) ==
    \A j \in 1..Len(m) : v[at + j] = IF m[j] = DQ THEN SQ ELSE m[j]

ReplyAlone(l, o) ==
    LET cb == recv_callback(<<>>, FALSE, l)
    IN  json_reply(complete_line(cb.data, cb.discard, o).res).wire

\* C15: the reply to a line is the reply a server that received nothing
\* before writes to that line, whatever lines came before it (answered,
\* unparsable, overflowing or empty) and however they were chunked; after
\* every completed line the buffer is empty and the discard flag false.
C15_LinesProcessedIndependently ==
    \A L \in {Lines(consumed)} :
        /\ Len(tx) = Len(L)
        /\ Len(log) = Len(L)
        /\ \A i \in 1..Len(L) : tx[i] = ReplyAlone(L[i], log[i].outcome)
        /\ (Len(L) > 0 /\ Partial(consumed) = <<>>) =>
             (data = <<>> /\ ~discard)

\* A line of junk answered 550 and the Read after it answered as a Read
\* alone is.
C15_Witness ==
    \E i \in 1..(Len(log) - 1) :
        /\ log[i].response.code = 550
        /\ Len(log[i].input) > 0
        /\ log[i + 1].request.req = "Read"
        /\ log[i + 1].response.code = 200
        /\ Len(tx) > i
        /\ tx[i + 1] = ReplyAlone(RequestLine(S_Read, <<120>>, <<>>),
                                 log[i + 1].outcome)

\* hi >> shift as a floor: the greatest n with n * 2^shift <= hi, found
\* among the three candidates around zero and otherwise by its sign.
OverOf(hi, shift) ==
    IF shift = 31 THEN (IF hi < 0 THEN 0 - 1 ELSE 0)
    ELSE IF hi >= 2^shift THEN 1
    ELSE IF hi >= 0 THEN 0
    ELSE IF hi >= 0 - 2^shift THEN 0 - 1
    ELSE 0 - 2

\* C16: for every lo, hi and shift in 0..31 saturating_scale returns
\* i32::MIN when hi >> shift < -1, i32::MAX when hi >> shift > 0, and
\* otherwise (lo >> shift) + (hi << (31 - shift)), a sum that stays within
\* the i32 range: no build panics on it and none wraps it.
C16_ScaleSaturates ==
    /\ q.stage # "panicked"
    /\ q.stage = "returned" =>
         \A a \in {q.args} : \A over \in {OverOf(a.hi, a.shift)} :
           IF over < 0 - 1 THEN q.out = I32Min
           ELSE IF over > 0 THEN q.out = I32Max
           ELSE \A l \in {Shr(a.lo, a.shift)} :
                \A h \in {Shl(a.hi, 31 - a.shift)} :
                  /\ ~AddOverflows(l, h)
                  /\ q.out = l + h

\* Line l, logged as e and answered w, was kept in full and handed to decode.
Retained(l, e, w) ==
    /\ ~e.discarded
    /\ e.decoded
    /\ e.input = Body(l)
    /\ e.response.code # 520
    /\ w # W_520

\* Every line of at most limit bytes, delimiter counted, is retained, and
\* while the line not yet terminated has fewer bytes the server is not
\* discarding.
RetainedUpTo(limit) ==
    \A L \in {Lines(consumed)} :
        /\ Len(log) = Len(L)
        /\ Len(tx) = Len(L)
        /\ \A i \in 1..Len(L) :
             Len(L[i]) <= limit => Retained(L[i], log[i], tx[i])
        /\ Len(Partial(consumed)) < limit => ~discard

\* C17 as stated: under any chunking every line of at most 256 bytes,
\* delimiter counted, is retained in full, handed to decode, and triggers
\* neither the discarding state nor a 520 reply.
C17_LinesOfAtMostCapacityRetained == RetainedUpTo(Capacity)

\* C17, amended: under any chunking every line of at most 255 bytes,
\* delimiter counted, is retained in full, handed to decode, and triggers
\* neither the discarding state nor a 520 reply; a line of 256 bytes is
\* dropped and answered 520.
C17_LinesBelowCapacityRetained ==
    /\ RetainedUpTo(Capacity - 1)
    /\ \A L \in {Lines(consumed)} :
         \A i \in 1..Len(L) :
           (Len(L[i]) = Capacity /\ i <= Len(log)) => log[i].discarded

\* A line of 255 bytes was handed to decode in full and answered, with more
\* input still unread.
C17_Witness ==
    \E i \in 1..Len(tx) :
        /\ log[i].decoded
        /\ log[i].input = Fill(Capacity - 2, 120)
        /\ tx[i] = W_550
        /\ Len(rx) > 0

\* C18: whenever the discard flag is set the buffer is empty; the flag is set
\* exactly while the line not yet terminated has reached the capacity; once
\* set it stays set, with nothing stored and no reply written, through every
\* step that consumes no delimiter, and the step that consumes the delimiter
\* clears it and writes the one 520 reply.
C18_DiscardingKeepsBufferEmpty ==
    /\ [](discard => data = <<>>)
    /\ [](discard <=> Len(Partial(consumed)) >= Capacity)
    /\ [][discard =>
            /\ data' = <<>>
            /\ discard' <=> NumLines(consumed') = NumLines(consumed)
            /\ discard' => (tx' = tx /\ log' = log)]_vars
    /\ [][(discard /\ ~discard') =>
            /\ consumed'[Len(consumed')] = NL
            /\ NumLines(consumed') = NumLines(consumed) + 1
            /\ tx' = Append(tx, W_520)
            /\ data' = <<>>]_vars

\* The server is discarding and has taken further bytes of the oversize line
\* off the socket since the overflow.
C18_Witness ==
    /\ discard
    /\ data = <<>>
    /\ Len(Partial(consumed)) > Capacity + 1
    /\ Len(consumed) = Len(Partial(consumed))

\* The bytes a step took off the socket.
Taken == SubSeq(consumed', Len(consumed) + 1, Len(consumed'))

\* C19: when a line completes while the server is not discarding, the buffer
\* (what was stored before plus the bytes just taken) is not empty and ends
\* with the delimiter, decode gets it without that last byte and the slice
\* never fails; an empty line reaches decode as an empty input and is
\* answered 550.
C19_CompletedLineEndsWithDelimiter ==
    /\ [](panic # "slice" /\ pc # "panicked")
    /\ [][(Len(log') = Len(log) + 1 /\ ~log'[Len(log')].discarded) =>
            \A buf \in {data \o Taken} : \A e \in {log'[Len(log')]} :
              /\ Len(buf) > 0
              /\ buf[Len(buf)] = NL
              /\ e.decoded
              /\ e.input = SubSeq(buf, 1, Len(buf) - 1)
              /\ (Len(buf) = 1 =>
                    /\ e.input = <<>>
                    /\ e.response.code = 550
                    /\ tx' = Append(tx, W_550))]_vars

\* An empty line was handed to decode and answered 550.
C19_Witness ==
    \E i \in 1..Len(tx) :
        /\ Lines(consumed)[i] = <<NL>>
        /\ log[i].decoded
        /\ log[i].input = <<>>
        /\ tx[i] = W_550

\* C20: for every line the framer accepts and the closure routes, and for
\* the 520 and 550 replies, attribute and value of the response each fit
\* their 256 bytes, the serialised reply with its delimiter fits the 512
\* bytes of the reply string, and no push, String::from or to_string of the
\* reply fails.
C20_RepliesFitTheirCapacities ==
    /\ panic = "none"
    /\ pc # "panicked"
    /\ Len(tx) = Len(log)
    /\ \A i \in 1..Len(log) :
         /\ ~log[i].response.panic
         /\ Len(log[i].response.attribute) <= 256
         /\ Len(log[i].response.value) <= 256
         /\ Len(tx[i]) <= 512

\* The longest registered name was read and its getter returned a text of
\* 256 bytes: the reply written is 509 bytes long.
C20_Witness ==
    \E i \in 1..Len(tx) :
        /\ log[i].response.code = 200
        /\ Len(log[i].response.attribute) = Capacity - 42
        /\ Len(log[i].response.value) = 256
        /\ Len(tx[i]) = 509
====
